---- MODULE Spec2Model ----
(***************************************************************************)
(* Model of the Oracle's Elixir cleaning pipeline (src/src/oracles_elixir.py, *)
(* class OraclesElixir) and of the flattening step of enrich_dataset        *)
(* (src/src/data_generator.py).                                             *)
(*                                                                          *)
(* A DataFrame is a record [columns, rows]: the set of column names and the *)
(* sequence of rows, each row a function from column name to value.  A      *)
(* Python list is a sequence; Python's 0-based index k is element k + 1.    *)
(* A missing value (NaN / NaT / None) is the value NaN.                     *)
(***************************************************************************)
EXTENDS Integers, Sequences, FiniteSets, TLC

VARIABLES
    \* clean_data, driven as in main(): the stored frame and the stage
    oe_data, pc, split_on, err, called_with,
    \* get_opponent called on its own
    column, entity, opponent, opponent2, opc,
    \* remove_inconsistent_games called on its own
    games, games_split_on, consistent, cpc,
    \* the flattening of enrich_dataset
    team_data, player_data, flattened_teams, flattened_players, fpc,
    \* enrich_dataset: the enrichment stages run and the files written, in order
    stages, files

cleanVars == <<oe_data, pc, split_on, err, called_with>>
oppVars   == <<column, entity, opponent, opponent2, opc>>
countVars == <<games, games_split_on, consistent, cpc>>
flatVars  == <<team_data, player_data, flattened_teams, flattened_players, fpc,
               stages, files>>
vars      == <<cleanVars, oppVars, countVars, flatVars>>

NaN == "NaN"

isna(v)  == v = NaN
notna(v) == v # NaN

(***************************************************************************)
(* Bounds of the model.                                                     *)
(***************************************************************************)
\* longest column handed to get_opponent on its own (two player windows)
MaxColumn == 20
\* longest column over which every value sequence is enumerated
MaxShortColumn == 4
\* most rows of a raw table handed to clean_data
MaxRows == 3
\* most rows of a table handed to remove_inconsistent_games on its own
MaxGameRows == 12
\* most rows of a table handed to the flattening
MaxFlatRows == 3
\* most rows of a table taken through every stage of enrich_dataset
MaxEnrichRows == 1

(***************************************************************************)
(* Python list indexing, column[k]: an index in -n..-1 silently addresses   *)
(* from the end, an index outside -n..n-1 raises IndexError.                *)
(***************************************************************************)
InList(lst, k) == k >= -Len(lst) /\ k < Len(lst)

OutOfBounds(lst, k) == k < 0 \/ k >= Len(lst)

GetItem(lst, k) == IF k >= 0 THEN lst[k + 1] ELSE lst[Len(lst) + k + 1]

(***************************************************************************)
(* get_opponent.  The result is [raised, opponent, reads]: the exception    *)
(* raised ("none" when the call returns), the list returned (empty when it  *)
(* raises: no list is returned then) and the set of indexes the walk        *)
(* computed for a read of column.                                           *)
(***************************************************************************)
GapMut(ent) == IF ent = "player" THEN 4 ELSE IF ent = "team" THEN 1 ELSE 0

Gap(ent) == IF ent = "player" THEN 5 ELSE IF ent = "team" THEN 1 ELSE 0

ValidEntity(ent) == ent = "player" \/ ent = "team"

BlueSideMut(flag, gap) == flag <= gap

BlueSide(flag, gap) == flag < gap

RedSide(flag, gap) == gap <= flag /\ flag < gap * 2

BelowMut(i, gap) == i - gap

Below(i, gap) == i + gap

Above(i, gap) == i - gap

ResetFlagMut(flag, gap) == flag

ResetFlag(flag, gap) == IF flag >= gap * 2 THEN 0 ELSE flag

Raise(exc, reads) == [raised |-> exc, opponent |-> <<>>, reads |-> reads]

RECURSIVE Walk(_, _, _, _, _, _)
Walk(col, gap, i, flag, opp, reads) ==
    IF i >= Len(col) THEN [raised |-> "none", opponent |-> opp, reads |-> reads]
    ELSE IF BlueSide(flag, gap) \/ RedSide(flag, gap) THEN
        LET k == IF BlueSide(flag, gap) THEN Below(i, gap) ELSE Above(i, gap)
        IN  IF ~InList(col, k) THEN Raise("IndexError", reads \cup {k})
            ELSE Walk(col, gap, i + 1, ResetFlag(flag + 1, gap),
                      Append(opp, GetItem(col, k)), reads \cup {k})
    ELSE Raise("ValueError", reads)

get_opponent(col, ent) ==
    IF ~ValidEntity(ent) THEN Raise("ValueError", {})
    ELSE Walk(col, Gap(ent), 0, 0, <<>>, {})

(***************************************************************************)
(* get_opponent called on its own: a column and an entity are given, the    *)
(* call is made, and the list it returns is handed to it once more.         *)
(***************************************************************************)
\* Python's None, where a frame is expected
None == [columns |-> {}, rows |-> <<>>]

NoResult == [raised |-> "none", opponent |-> <<>>, reads |-> {}]

Labelled(n) == [i \in 1..n |-> i - 1]

Values == {7, 8}

SeqsUpTo(S, n) == UNION {[1..m -> S] : m \in 0..n}

Columns == {Labelled(n) : n \in 0..MaxColumn} \cup SeqsUpTo(Values, MaxShortColumn)

Entities == {"player", "team", "coach"}

CleanIdle ==
    /\ oe_data = None
    /\ pc = "idle"
    /\ split_on = "None"
    /\ err = "none"
    /\ called_with = None

CountIdle ==
    /\ games = None
    /\ games_split_on = "None"
    /\ consistent = None
    /\ cpc = "idle"

FlatIdle ==
    /\ team_data = None
    /\ player_data = None
    /\ flattened_teams = None
    /\ flattened_players = None
    /\ fpc = "idle"
    /\ stages = <<>>
    /\ files = <<>>

OppIdle ==
    /\ column = <<>>
    /\ entity = "team"
    /\ opponent = NoResult
    /\ opponent2 = NoResult
    /\ opc = "idle"

(***************************************************************************)
(* DataFrames.                                                              *)
(***************************************************************************)
Frame(cols, rows) == [columns |-> cols, rows |-> rows]

\* df[cols]: the projection on the listed columns
Project(df, cols) ==
    Frame(cols, [i \in 1..Len(df.rows) |-> [c \in cols |-> df.rows[i][c]]])

\* df[c].to_list()
ToList(df, c) == [i \in 1..Len(df.rows) |-> df.rows[i][c]]

\* df[c] = lst
SetColumn(df, c, lst) ==
    Frame(df.columns \cup {c},
          [i \in 1..Len(df.rows) |->
              [d \in df.columns \cup {c} |-> IF d = c THEN lst[i] ELSE df.rows[i][d]]])

\* df[c].fillna(df[other])
FillNa(df, c, other) ==
    [i \in 1..Len(df.rows) |->
        IF isna(df.rows[i][c]) THEN df.rows[i][other] ELSE df.rows[i][c]]

(***************************************************************************)
(* Strings of the model, in code point order (the order sort_values uses);  *)
(* a missing value sorts last.                                              *)
(***************************************************************************)
StringOrder ==
    << "", " ", " NA1/3754345055", "01/2023/01", "2023-01-01", "A", "B", "Blue",
       "ESPORTSTMNT01_1", "ESPORTSTMNT01_2", "LCK", "NA1/3754345055", "Red",
       "Timestamp('2023-01-01')", "Timestamp('2023-01-02')", "bot", "id:A", "id:B",
       "id:p1", "id:p2", "jng", "mid", "nan", "null", "p1", "p2", "sup", "top",
       "unknown player", "unknown team" >>

Rank(v) ==
    IF v \in {StringOrder[k] : k \in 1..Len(StringOrder)}
    THEN CHOOSE k \in 1..Len(StringOrder) : StringOrder[k] = v
    ELSE Len(StringOrder) + 1

\* Series.str.strip() on one value: leading and trailing whitespace removed
str_strip(v) ==
    CASE v = " NA1/3754345055" -> "NA1/3754345055"
      [] v = " " -> ""
      [] OTHER -> v

\* pd.to_datetime on one value
Parsable(v) == v \in {"2023-01-01", NaN}

to_datetime(v) == IF v = "2023-01-01" THEN "Timestamp('2023-01-01')" ELSE v

\* replace_values of format_data_types
replace_values(v) == IF v \in {"", "nan", "null"} THEN NaN ELSE v

(***************************************************************************)
(* The stages of clean_data, each from the frame stored in self.oe_data to  *)
(* the frame it returns.                                                    *)
(***************************************************************************)
RawColumns ==
    {"date", "gameid", "side", "position", "league", "playername", "playerid",
     "teamname", "teamid", "earned gpm"}

\* line 105: the date column parsed in place
parse_dates(df) ==
    Frame(df.columns,
          [i \in 1..Len(df.rows) |->
              [df.rows[i] EXCEPT !["date"] = to_datetime(@)]])

\* lines 106-117 where the frame-level .str.strip() acts column by column
strip_and_replace(df) ==
    Frame(df.columns,
          [i \in 1..Len(df.rows) |->
              [c \in df.columns |->
                  IF c \in {"gameid", "playerid", "teamid"}
                  THEN replace_values(str_strip(df.rows[i][c]))
                  ELSE IF c = "position" THEN replace_values(df.rows[i][c])
                  ELSE df.rows[i][c]]])

format_ids(df) ==
    Frame(df.columns,
          SelectSeq(df.rows, LAMBDA r : notna(r["gameid"]) /\ notna(r["position"])))

remove_null_games(df) ==
    Frame(df.columns, SelectSeq(df.rows, LAMBDA r : notna(r["gameid"])))

drop_unknown_entities(df) ==
    Frame(df.columns,
          SelectSeq(df.rows, LAMBDA r : r["playername"] # "unknown player"
                                        /\ r["teamname"] # "unknown team"))

drop_negative_earned_gpm(df) ==
    Frame(df.columns, SelectSeq(df.rows, LAMBDA r : r["earned gpm"] >= 0))

NoReplacements == <<>>

Replace(v, replacements) ==
    IF v \in DOMAIN replacements THEN replacements[v] ELSE v

normalize_names(df, team_replacements, player_replacements) ==
    Frame(df.columns,
          [i \in 1..Len(df.rows) |->
              [c \in df.columns |->
                  IF c = "teamname" THEN Replace(df.rows[i][c], team_replacements)
                  ELSE IF c = "playername"
                       THEN Replace(df.rows[i][c], player_replacements)
                  ELSE df.rows[i][c]]])

\* the columns of the two projections that the model carries
TeamColumns ==
    {"date", "gameid", "side", "league", "teamname", "teamid", "earned gpm"}

PlayerColumns ==
    {"date", "gameid", "side", "position", "league", "playername", "playerid",
     "teamname", "teamid", "earned gpm"}

ValidSplit(s) == s = "team" \/ s = "player"

\* the frame returned; any other split_on raises ValueError (Do_subset_data)
subset_data(df, s) ==
    IF s = "team" THEN Project(df, TeamColumns)
    ELSE IF s = "player" THEN Project(df, PlayerColumns)
    ELSE df

\* counts = self.oe_data["gameid"].value_counts()
value_counts(df, g) == Cardinality({i \in 1..Len(df.rows) : df.rows[i]["gameid"] = g})

GameIds(df) == {df.rows[i]["gameid"] : i \in 1..Len(df.rows)} \ {NaN}

TooManyMut(n) == n >= 10

TooMany(n) == n > 10

Inconsistent(n, s) == IF s = "team" THEN n # 2 ELSE (n < 1) \/ TooMany(n)

inconsistent_games(df, s) == {g \in GameIds(df) : Inconsistent(value_counts(df, g), s)}

remove_inconsistent_games(df, s) ==
    Frame(df.columns,
          SelectSeq(df.rows, LAMBDA r : r["gameid"] \notin inconsistent_games(df, s)))

(***************************************************************************)
(* sort_values on a list of columns: lexicographic on the keys, rows with   *)
(* equal keys kept in their order.                                          *)
(***************************************************************************)
RECURSIVE KeyLess(_, _, _)
KeyLess(keys, a, b) ==
    IF keys = <<>> THEN FALSE
    ELSE LET k == Head(keys)
         IN  IF Rank(a[k]) < Rank(b[k]) THEN TRUE
             ELSE IF Rank(a[k]) > Rank(b[k]) THEN FALSE
             ELSE KeyLess(Tail(keys), a, b)

RECURSIVE InsertRow(_, _, _)
InsertRow(sorted, r, keys) ==
    IF sorted = <<>> THEN <<r>>
    ELSE IF KeyLess(keys, r, Head(sorted)) THEN <<r>> \o sorted
    ELSE <<Head(sorted)>> \o InsertRow(Tail(sorted), r, keys)

RECURSIVE SortRows(_, _)
SortRows(rows, keys) ==
    IF rows = <<>> THEN <<>>
    ELSE InsertRow(SortRows(SubSeq(rows, 1, Len(rows) - 1), keys), rows[Len(rows)], keys)

sort_values(df, keys) == Frame(df.columns, SortRows(df.rows, keys))

sort_data(df, s) ==
    IF s = "player"
    THEN sort_values(df, <<"league", "date", "gameid", "side", "position">>)
    ELSE IF s = "team" THEN sort_values(df, <<"league", "date", "gameid", "side">>)
    ELSE None

fill_null_team_ids(df, s) ==
    IF s = "player" THEN SetColumn(df, "teamid", FillNa(df, "teamid", "teamname"))
    ELSE df

\* line 237-238 of enrich_opponent_metrics
fill_null_player_ids(df, s) ==
    IF s = "player" THEN SetColumn(df, "playerid", FillNa(df, "playerid", "playername"))
    ELSE df

\* lines 239-244: <<new column, column it is paired from>>, in the order computed
OpponentColumns(s) ==
    (IF s = "player"
     THEN << <<"opponentteam", "teamname">>, <<"opponentteamid", "teamid">> >>
     ELSE << >>)
    \o << <<"opponentname", "playername">>, <<"opponentid", "playerid">>,
          <<"opponent_egpm", "earned gpm">> >>

\* the result is [err, df]: the exception raised ("none" when every column
\* was added) and the frame as the assignments made so far leave it
RECURSIVE AddOpponents(_, _, _)
AddOpponents(df, todo, s) ==
    IF todo = <<>> THEN [err |-> "none", df |-> df]
    ELSE IF todo[1][2] \notin df.columns THEN [err |-> "KeyError", df |-> df]
    ELSE LET r == get_opponent(ToList(df, todo[1][2]), s)
         IN  IF r.raised # "none" THEN [err |-> r.raised, df |-> df]
             ELSE AddOpponents(SetColumn(df, todo[1][1], r.opponent), Tail(todo), s)

enrich_opponent_metrics(df, s) ==
    AddOpponents(fill_null_player_ids(df, s), OpponentColumns(s), s)

(***************************************************************************)
(* main(): the hardcoded exclusion lists.                                   *)
(***************************************************************************)
player_missing_games ==
    {"10074-10074_game_2", "ESPORTSTMNT02_3170083", "10074-10074_game_1",
     "ESPORTSTMNT02_3161035", "ESPORTSTMNT02_3171378", "ESPORTSTMNT02_3169606",
     "10062-10062_game_3", "ESPORTSTMNT02_3161006", "10062-10062_game_2",
     "10062-10062_game_1", "ESPORTSTMNT02_3160621"}

invalid_games ==
    {"NA1/3754345055", "NA1/3754344502", "ESPORTSTMNT02/1890835", "NA1/3669212337",
     "NA1/3669211958", "ESPORTSTMNT02/1890848", "ESPORTSTMNT02_1932895",
     "ESPORTSTMNT02_1932914", "ESPORTSTMNT05_3220607"}

remove_buggy_matches(df) ==
    Frame(df.columns,
          SelectSeq(df.rows,
                    LAMBDA r : r["gameid"] \notin (invalid_games \cup player_missing_games)))

(***************************************************************************)
(* Raw rows: a Blue and a Red row of one game, and rows that differ from    *)
(* them in the values the cleaning stages look at.                          *)
(***************************************************************************)
BlueRow ==
    [c \in RawColumns |->
        CASE c = "date" -> "2023-01-01"
          [] c = "gameid" -> "ESPORTSTMNT01_1"
          [] c = "side" -> "Blue"
          [] c = "position" -> "top"
          [] c = "league" -> "LCK"
          [] c = "playername" -> "p1"
          [] c = "playerid" -> "id:p1"
          [] c = "teamname" -> "A"
          [] c = "teamid" -> "id:A"
          [] c = "earned gpm" -> 250]

RedRow ==
    [BlueRow EXCEPT !["side"] = "Red", !["playername"] = "p2", !["playerid"] = "id:p2",
                    !["teamname"] = "B", !["teamid"] = "id:B", !["earned gpm"] = 300]

RawRows ==
    { BlueRow,
      RedRow,
      \* ids missing, names present
      [BlueRow EXCEPT !["position"] = "jng", !["playerid"] = NaN, !["teamid"] = NaN],
      \* ids and names missing
      [RedRow EXCEPT !["playerid"] = NaN, !["teamid"] = NaN,
                     !["playername"] = NaN, !["teamname"] = NaN],
      \* an excluded game, as listed and with a leading blank
      [BlueRow EXCEPT !["gameid"] = "NA1/3754345055"],
      [RedRow EXCEPT !["gameid"] = " NA1/3754345055"],
      \* rows the filters drop
      [BlueRow EXCEPT !["gameid"] = " "],
      [RedRow EXCEPT !["position"] = NaN],
      [BlueRow EXCEPT !["playername"] = "unknown player"],
      [RedRow EXCEPT !["earned gpm"] = -1],
      \* a date that does not parse
      [BlueRow EXCEPT !["date"] = "01/2023/01"] }

Positions == <<"bot", "jng", "mid", "sup", "top">>

\* the rows of one side of a game, one per position, in the order given
SideRows(row, gid, order) ==
    [k \in 1..Len(order) |->
        [row EXCEPT !["gameid"] = gid, !["position"] = Positions[order[k]],
                    !["earned gpm"] = @ + order[k]]]

FullGame(gid) ==
    SideRows(BlueRow, gid, <<1, 2, 3, 4, 5>>) \o SideRows(RedRow, gid, <<1, 2, 3, 4, 5>>)

\* the same ten rows as the file may list them: Red first, positions reversed
Shuffled(gid) ==
    SideRows(RedRow, gid, <<5, 4, 3, 2, 1>>) \o SideRows(BlueRow, gid, <<5, 4, 3, 2, 1>>)

FullGames ==
    { FullGame("ESPORTSTMNT01_1"),
      Shuffled("ESPORTSTMNT01_1"),
      Shuffled("ESPORTSTMNT01_2") \o FullGame("ESPORTSTMNT01_1"),
      FullGame("NA1/3754345055"),
      Shuffled(" NA1/3754345055"),
      \* ten rows of two games with rows missing
      SideRows(BlueRow, "ESPORTSTMNT01_1", <<1, 2, 3, 4>>)
          \o SideRows(RedRow, "ESPORTSTMNT01_2", <<1, 2, 3, 4, 5>>)
          \o SideRows(BlueRow, "ESPORTSTMNT01_2", <<5>>) }

RawTables ==
    {Frame(RawColumns, rows) : rows \in SeqsUpTo(RawRows, MaxRows) \cup FullGames}

SplitValues == {"team", "player", "None", "champion"}

(***************************************************************************)
(* main() and clean_data, stage by stage.  pc names the stage to run next;  *)
(* an exception ends the run in "failed" with the exception in err and      *)
(* self.oe_data as the assignments made before it left it.                  *)
(***************************************************************************)
Init ==
    /\ oe_data \in RawTables
    /\ split_on \in SplitValues
    /\ pc = "main"
    /\ err = "none"
    /\ called_with = None
    /\ OppIdle /\ CountIdle /\ FlatIdle

Stage(from, to, df) ==
    /\ pc = from
    /\ pc' = to
    /\ oe_data' = df
    /\ UNCHANGED <<split_on, err, called_with>>
    /\ UNCHANGED <<oppVars, countVars, flatVars>>

Fail(from, exc, df) ==
    /\ pc = from
    /\ pc' = "failed"
    /\ err' = exc
    /\ oe_data' = df
    /\ UNCHANGED <<split_on, called_with>>
    /\ UNCHANGED <<oppVars, countVars, flatVars>>

\* data_generator.py line 150, then the call of clean_data
Main_remove_buggy_matches ==
    /\ pc = "main"
    /\ pc' = "format_data_types"
    /\ oe_data' = remove_buggy_matches(oe_data)
    /\ called_with' = oe_data'
    /\ UNCHANGED <<split_on, err>>
    /\ UNCHANGED <<oppVars, countVars, flatVars>>

DatesParse(df) == \A i \in 1..Len(df.rows) : Parsable(df.rows[i]["date"])

\* line 105 on a date that does not parse
Raise_ParserError ==
    /\ ~DatesParse(oe_data)
    /\ Fail("format_data_types", "ParserError", oe_data)

\* A pandas DataFrame has no .str accessor: the statement of lines 106-108
\* raises AttributeError after line 105 has assigned the parsed dates.  The
\* column-wise trim the statement is written for is kept as a second outcome,
\* so that the stages after it are covered as well.
Raise_AttributeError ==
    /\ DatesParse(oe_data)
    /\ Fail("format_data_types", "AttributeError", parse_dates(oe_data))

Do_format_data_types ==
    /\ DatesParse(oe_data)
    /\ Stage("format_data_types", "format_ids", strip_and_replace(parse_dates(oe_data)))

Do_format_ids == Stage("format_ids", "remove_null_games", format_ids(oe_data))

Do_remove_null_games ==
    Stage("remove_null_games", "drop_unknown_entities", remove_null_games(oe_data))

Do_drop_unknown_entities ==
    Stage("drop_unknown_entities", "drop_negative_earned_gpm", drop_unknown_entities(oe_data))

Do_drop_negative_earned_gpm ==
    Stage("drop_negative_earned_gpm", "normalize_names", drop_negative_earned_gpm(oe_data))

Do_normalize_names ==
    Stage("normalize_names", "subset_data",
          normalize_names(oe_data, NoReplacements, NoReplacements))

Do_subset_data ==
    IF ValidSplit(split_on)
    THEN Stage("subset_data", "remove_inconsistent_games", subset_data(oe_data, split_on))
    ELSE Fail("subset_data", "ValueError", oe_data)

Do_remove_inconsistent_games ==
    Stage("remove_inconsistent_games", "sort_data",
          remove_inconsistent_games(oe_data, split_on))

Do_sort_data == Stage("sort_data", "fill_null_team_ids", sort_data(oe_data, split_on))

Do_fill_null_team_ids ==
    Stage("fill_null_team_ids", "enrich_opponent_metrics",
          fill_null_team_ids(oe_data, split_on))

\* enrich_opponent_metrics up to its first call of get_opponent
Do_fill_null_player_ids ==
    Stage("enrich_opponent_metrics", "get_opponent", fill_null_player_ids(oe_data, split_on))

\* the calls of get_opponent, and the return of clean_data
Do_get_opponents ==
    LET r == AddOpponents(oe_data, OpponentColumns(split_on), split_on)
    IN  IF r.err = "none" THEN Stage("get_opponent", "done", r.df)
        ELSE Fail("get_opponent", r.err, r.df)

Next ==
    \/ Main_remove_buggy_matches
    \/ Raise_ParserError
    \/ Raise_AttributeError
    \/ Do_format_data_types
    \/ Do_format_ids
    \/ Do_remove_null_games
    \/ Do_drop_unknown_entities
    \/ Do_drop_negative_earned_gpm
    \/ Do_normalize_names
    \/ Do_subset_data
    \/ Do_remove_inconsistent_games
    \/ Do_sort_data
    \/ Do_fill_null_team_ids
    \/ Do_fill_null_player_ids
    \/ Do_get_opponents

Spec == Init /\ [][Next]_vars

(***************************************************************************)
(* remove_inconsistent_games called on its own, on a table of rows of two   *)
(* games; "earned gpm" numbers the rows, so that each row is told apart.    *)
(***************************************************************************)
GameTable(ids) ==
    Frame({"gameid", "earned gpm"},
          [i \in 1..Len(ids) |->
              [c \in {"gameid", "earned gpm"} |-> IF c = "gameid" THEN ids[i] ELSE i]])

GameTables ==
    {GameTable(ids) : ids \in SeqsUpTo({"ESPORTSTMNT01_1", "ESPORTSTMNT01_2"}, MaxGameRows)}

InitCount ==
    /\ games \in GameTables
    /\ games_split_on = "None"
    /\ consistent = None
    /\ cpc = "ready"
    /\ CleanIdle /\ OppIdle /\ FlatIdle

Call_remove_inconsistent_games ==
    /\ cpc = "ready"
    /\ \E s \in {"team", "player"} :
          /\ games_split_on' = s
          /\ consistent' = remove_inconsistent_games(games, s)
    /\ cpc' = "called"
    /\ UNCHANGED games
    /\ UNCHANGED <<cleanVars, oppVars, flatVars>>

NextCount == Call_remove_inconsistent_games

SpecCount == InitCount /\ [][NextCount]_vars

(***************************************************************************)
(* get_opponent called on its own, on a list of numbers or on the gameid    *)
(* column of a player table that remove_inconsistent_games let through, in  *)
(* whatever order its rows are.                                             *)
(***************************************************************************)
GameIdColumns ==
    {ToList(remove_inconsistent_games(g, "player"), "gameid") : g \in GameTables}

InitOpp ==
    /\ \/ column \in Columns
       \/ column \in GameIdColumns
    /\ entity \in Entities
    /\ opponent = NoResult
    /\ opponent2 = NoResult
    /\ opc = "ready"
    /\ CleanIdle /\ CountIdle /\ FlatIdle

Call_get_opponent ==
    /\ opc = "ready"
    /\ opponent' = get_opponent(column, entity)
    /\ opc' = "called"
    /\ UNCHANGED <<column, entity, opponent2>>
    /\ UNCHANGED <<cleanVars, countVars, flatVars>>

Call_get_opponent_again ==
    /\ opc = "called"
    /\ opponent.raised = "none"
    /\ opponent2' = get_opponent(opponent.opponent, entity)
    /\ opc' = "called_twice"
    /\ UNCHANGED <<column, entity, opponent>>
    /\ UNCHANGED <<cleanVars, countVars, flatVars>>

NextOpp ==
    \/ Call_get_opponent
    \/ Call_get_opponent_again

SpecOpp == InitOpp /\ [][NextOpp]_vars

(***************************************************************************)
(* enrich_dataset, lines 90 and 105-106: the latest row of each entity.     *)
(***************************************************************************)
HasNaKey(r, by) == \E c \in by : isna(r[c])

\* The rows with a missing key belong to no group; pandas releases that give
\* them the group label -1 without masking it out treat them as one more
\* group (nan_group).
SameGroup(a, b, by) ==
    IF HasNaKey(a, by) \/ HasNaKey(b, by) THEN HasNaKey(a, by) /\ HasNaKey(b, by)
    ELSE \A c \in by : a[c] = b[c]

\* tail(1) of a group: the row no later row of its group follows
IsTailMut(rows, i, by, nan_group) ==
    /\ HasNaKey(rows[i], by) => nan_group
    /\ \A j \in 1..(i - 1) : ~SameGroup(rows[j], rows[i], by)

IsTail(rows, i, by, nan_group) ==
    /\ HasNaKey(rows[i], by) => nan_group
    /\ \A j \in (i + 1)..Len(rows) : ~SameGroup(rows[j], rows[i], by)

RECURSIVE TailRows(_, _, _, _)
TailRows(rows, i, by, nan_group) ==
    IF i > Len(rows) THEN <<>>
    ELSE (IF IsTail(rows, i, by, nan_group) THEN <<rows[i]>> ELSE <<>>)
         \o TailRows(rows, i + 1, by, nan_group)

\* df.groupby(by).tail(1).reset_index(drop=True): rows keep their order
groupby_tail(df, by, nan_group) == Frame(df.columns, TailRows(df.rows, 1, by, nan_group))

flatten_teams(df, nan_group) ==
    groupby_tail(sort_values(df, <<"teamid", "date">>), {"teamid"}, nan_group)

flatten_players(df, nan_group) ==
    groupby_tail(sort_values(df, <<"playerid", "date">>), {"playerid", "teamid"}, nan_group)

FlatColumns == {"teamid", "playerid", "date"}

FlatRows ==
    [FlatColumns ->
        {"id:A", "id:B", "id:p1", "id:p2", NaN,
         "Timestamp('2023-01-01')", "Timestamp('2023-01-02')"}]

EnrichedRows ==
    {r \in FlatRows :
        /\ r["teamid"] \in {"id:A", "id:B", NaN}
        /\ r["playerid"] \in {"id:p1", "id:p2"}
        /\ r["date"] \in {"Timestamp('2023-01-01')", "Timestamp('2023-01-02')"}}

EnrichedTables == {Frame(FlatColumns, rows) : rows \in SeqsUpTo(EnrichedRows, MaxFlatRows)}

(***************************************************************************)
(* enrich_dataset, lines 46-87: the calls into lol_modeling and the interim *)
(* files, in the order of the statements.  The library is outside the       *)
(* repository: a call is recorded in stages, a file written in files, and   *)
(* any of them may raise, which ends the run.                               *)
(***************************************************************************)
EnrichOrderMut ==
    << "dk_enrich(team)", "dk_enrich(player)", "player_elo", "team_elo",
       "aggregate_player_elos", "trueskill_model", "egpm_model(team)",
       "egpm_model(player)", "ewm_model(player)", "ewm_model(team)",
       "enrich_ema_statistics(team)", "team_data.csv",
       "enrich_ema_statistics(player)", "player_data.csv" >>

EnrichOrder ==
    << "dk_enrich(team)", "dk_enrich(player)", "player_elo", "team_elo",
       "aggregate_player_elos", "trueskill_model", "egpm_model(team)",
       "egpm_model(player)", "ewm_model(player)", "ewm_model(team)",
       "enrich_ema_statistics(team)", "enrich_ema_statistics(player)",
       "team_data.csv", "player_data.csv" >>

InterimFiles == {"team_data.csv", "player_data.csv"}

\* the statement that follows step; the flattening follows the last one
After(step) ==
    LET k == CHOOSE i \in 1..Len(EnrichOrder) : EnrichOrder[i] = step
    IN  IF k < Len(EnrichOrder) THEN EnrichOrder[k + 1] ELSE "flatten_teams"

RunStage(step) ==
    /\ fpc = step
    /\ fpc' = After(step)
    /\ stages' = Append(stages, step)
    /\ UNCHANGED <<team_data, player_data, flattened_teams, flattened_players, files>>
    /\ UNCHANGED <<cleanVars, oppVars, countVars>>

WriteFile(step) ==
    /\ fpc = step
    /\ fpc' = After(step)
    /\ files' = Append(files, step)
    /\ UNCHANGED <<team_data, player_data, flattened_teams, flattened_players, stages>>
    /\ UNCHANGED <<cleanVars, oppVars, countVars>>

Do_dk_enrich_team == RunStage("dk_enrich(team)")

Do_dk_enrich_player == RunStage("dk_enrich(player)")

Do_player_elo == RunStage("player_elo")

Do_team_elo == RunStage("team_elo")

Do_aggregate_player_elos == RunStage("aggregate_player_elos")

Do_trueskill_model == RunStage("trueskill_model")

Do_egpm_model_team == RunStage("egpm_model(team)")

Do_egpm_model_player == RunStage("egpm_model(player)")

Do_ewm_model_player == RunStage("ewm_model(player)")

Do_ewm_model_team == RunStage("ewm_model(team)")

Do_enrich_ema_statistics_team == RunStage("enrich_ema_statistics(team)")

Do_enrich_ema_statistics_player == RunStage("enrich_ema_statistics(player)")

Write_team_data == WriteFile("team_data.csv")

Write_player_data == WriteFile("player_data.csv")

\* a call into the library, or the drop of the index column, raises
Stage_raises ==
    /\ fpc \in {EnrichOrder[k] : k \in 1..Len(EnrichOrder)}
    /\ fpc' = "failed"
    /\ UNCHANGED <<team_data, player_data, flattened_teams, flattened_players,
                   stages, files>>
    /\ UNCHANGED <<cleanVars, oppVars, countVars>>

\* the two enriched tables hold the rows of the same games
InitEnrich ==
    /\ player_data \in {Frame(FlatColumns, rows) : rows \in SeqsUpTo(EnrichedRows, MaxEnrichRows)}
    /\ team_data = Project(player_data, {"teamid", "date"})
    /\ flattened_teams = None
    /\ flattened_players = None
    /\ fpc = EnrichOrder[1]
    /\ stages = <<>>
    /\ files = <<>>
    /\ CleanIdle /\ OppIdle /\ CountIdle

\* the flattening on its own: enrich_dataset as line 90 finds it
InitFlat ==
    /\ player_data \in EnrichedTables
    /\ team_data = Project(player_data, {"teamid", "date"})
    /\ flattened_teams = None
    /\ flattened_players = None
    /\ fpc = "flatten_teams"
    /\ stages = SelectSeq(EnrichOrder, LAMBDA step : step \notin InterimFiles)
    /\ files = SelectSeq(EnrichOrder, LAMBDA step : step \in InterimFiles)
    /\ CleanIdle /\ OppIdle /\ CountIdle

Do_flatten_teams ==
    /\ fpc = "flatten_teams"
    /\ \E nan_group \in BOOLEAN : flattened_teams' = flatten_teams(team_data, nan_group)
    /\ fpc' = "flatten_players"
    /\ files' = Append(files, "flattened_teams.csv")
    /\ UNCHANGED <<team_data, player_data, flattened_players, stages>>
    /\ UNCHANGED <<cleanVars, oppVars, countVars>>

Do_flatten_players ==
    /\ fpc = "flatten_players"
    /\ \E nan_group \in BOOLEAN :
          flattened_players' = flatten_players(player_data, nan_group)
    /\ fpc' = "flattened"
    /\ files' = Append(files, "flattened_players.csv")
    /\ UNCHANGED <<team_data, player_data, flattened_teams, stages>>
    /\ UNCHANGED <<cleanVars, oppVars, countVars>>

NextFlat ==
    \/ Do_flatten_teams
    \/ Do_flatten_players

SpecFlat == InitFlat /\ [][NextFlat]_vars

NextEnrich ==
    \/ Do_dk_enrich_team
    \/ Do_dk_enrich_player
    \/ Do_player_elo
    \/ Do_team_elo
    \/ Do_aggregate_player_elos
    \/ Do_trueskill_model
    \/ Do_egpm_model_team
    \/ Do_egpm_model_player
    \/ Do_ewm_model_player
    \/ Do_ewm_model_team
    \/ Do_enrich_ema_statistics_team
    \/ Do_enrich_ema_statistics_player
    \/ Write_team_data
    \/ Write_player_data
    \/ Stage_raises
    \/ Do_flatten_teams
    \/ Do_flatten_players

SpecEnrich == InitEnrich /\ [][NextEnrich]_vars

(***************************************************************************)
(* Properties.                                                              *)
(***************************************************************************)
PairGap(ent) == IF ent = "player" THEN 5 ELSE 1

\* the gap divides the column into whole windows of twice the gap
WholeWindows(col, ent) ==
    ent \in {"player", "team"} /\ Len(col) % (2 * PairGap(ent)) = 0

\* C2: on a column of whole windows get_opponent returns a list as long as the
\* column, whose element i is column[i + g] in the first half of a window and
\* column[i - g] in the second half (i counted from 0).
C2_PairedByGap ==
    (opc # "ready" /\ WholeWindows(column, entity)) =>
        /\ opponent.raised = "none"
        /\ Len(opponent.opponent) = Len(column)
        /\ \A i \in 0..(Len(column) - 1) :
              LET g == PairGap(entity)
              IN  opponent.opponent[i + 1] =
                      IF i % (2 * g) < g THEN column[i + g + 1] ELSE column[i - g + 1]

\* a ten-row player column: the Blue row at position 3 is paired with the Red
\* row at position 3, five rows below, and the other way round
C2_Witness ==
    /\ opc = "called"
    /\ entity = "player"
    /\ Len(column) = 10
    /\ column[3] # column[8]
    /\ opponent.opponent[3] = column[8]
    /\ opponent.opponent[8] = column[3]

SilentOutOfBounds(col, res) ==
    \E k \in res.reads : OutOfBounds(col, k) /\ (res.raised = "none" \/ res.opponent # <<>>)

\* C5: an index the walk computes outside 0..n-1 makes the call raise and
\* return no list; no read addresses the column from its end.
C5_NoSilentOutOfBounds ==
    /\ ~SilentOutOfBounds(column, opponent)
    /\ ~SilentOutOfBounds(opponent.opponent, opponent2)

\* a three-row team column: the third row looks one row past the end
C5_Witness ==
    /\ opc = "called"
    /\ entity = "team"
    /\ Len(column) = 3
    /\ 3 \in opponent.reads
    /\ opponent.raised = "IndexError"

\* C6: on a column of whole windows, pairing the paired list gives the column
\* back.
C6_Involution ==
    WholeWindows(column, entity) =>
        /\ opc = "called" => opponent.raised = "none"
        /\ opc = "called_twice" =>
              opponent2.raised = "none" /\ opponent2.opponent = column

\* two player windows of distinct values, paired twice
C6_Witness ==
    /\ opc = "called_twice"
    /\ entity = "player"
    /\ Len(column) = 20
    /\ opponent.opponent # column
    /\ opponent2.opponent = column

RowsOfGame(df, g) == Cardinality({i \in 1..Len(df.rows) : df.rows[i]["gameid"] = g})

Conforms(n, s) == IF s = "team" THEN n = 2 ELSE n >= 1 /\ n <= 10

\* C4: remove_inconsistent_games keeps exactly the rows of the games with 2
\* rows (team view), with 1 to 10 rows (player view), in their order.
C4_ExactlyConformingGames ==
    cpc = "called" =>
        /\ consistent.columns = games.columns
        /\ consistent.rows =
              SelectSeq(games.rows,
                        LAMBDA r : Conforms(RowsOfGame(games, r["gameid"]), games_split_on))

\* player view: a game of 11 rows goes, the one-row game beside it stays
C4_Witness ==
    /\ cpc = "called"
    /\ games_split_on = "player"
    /\ Len(games.rows) = 12
    /\ RowsOfGame(games, "ESPORTSTMNT01_1") = 11
    /\ Len(consistent.rows) = 1
    /\ consistent.rows[1]["gameid"] = "ESPORTSTMNT01_2"

KeyOf(r, by) == [c \in by |-> r[c]]

EntitiesOf(df, by) ==
    {KeyOf(df.rows[i], by) : i \in {j \in 1..Len(df.rows) : ~HasNaKey(df.rows[j], by)}}

LatestPerEntity(df, flat, by) ==
    \A e \in EntitiesOf(df, by) :
        /\ Cardinality({i \in 1..Len(flat.rows) : KeyOf(flat.rows[i], by) = e}) = 1
        /\ \A i \in 1..Len(flat.rows) :
              KeyOf(flat.rows[i], by) = e =>
                  /\ \E j \in 1..Len(df.rows) : df.rows[j] = flat.rows[i]
                  /\ \A j \in 1..Len(df.rows) :
                        KeyOf(df.rows[j], by) = e
                            => Rank(df.rows[j]["date"]) <= Rank(flat.rows[i]["date"])

\* C10: the flattening holds one row per entity (teamid; playerid and teamid),
\* and that row's date is the latest date among the entity's rows of the
\* enriched table.
C10_LatestRowPerEntity ==
    /\ fpc \in {"flatten_players", "flattened"} =>
          LatestPerEntity(team_data, flattened_teams, {"teamid"})
    /\ fpc = "flattened" =>
          LatestPerEntity(player_data, flattened_players, {"playerid", "teamid"})

\* an entity whose later game is listed first, beside a second entity
C10_Witness ==
    /\ fpc = "flattened"
    /\ Len(player_data.rows) = 3
    /\ KeyOf(player_data.rows[1], {"playerid", "teamid"})
           = KeyOf(player_data.rows[2], {"playerid", "teamid"})
    /\ player_data.rows[1]["date"] = "Timestamp('2023-01-02')"
    /\ player_data.rows[2]["date"] = "Timestamp('2023-01-01')"
    /\ Cardinality(EntitiesOf(player_data, {"playerid", "teamid"})) = 2
    /\ Cardinality(EntitiesOf(team_data, {"teamid"})) = 2
    /\ flattened_players.rows[1]["date"] = "Timestamp('2023-01-02')"

Window(df, w, g) == [k \in 1..(2 * g) |-> df.rows[2 * g * w + k]]

PairedWindow(win, df, g) ==
    /\ \A k \in 1..(2 * g) : win[k]["gameid"] = win[1]["gameid"]
    /\ \A k \in 1..g : win[k]["side"] = win[1]["side"]
    /\ \A k \in (g + 1)..(2 * g) : win[k]["side"] = win[g + 1]["side"]
    /\ win[1]["side"] # win[g + 1]["side"]
    /\ "position" \in df.columns =>
          \A k \in 1..g : win[k]["position"] = win[k + g]["position"]

PairingPrecondition(df, s) ==
    \A w \in 0..((Len(df.rows) \div (2 * PairGap(s))) - 1) :
        PairedWindow(Window(df, w, PairGap(s)), df, PairGap(s))

TwoRowGames(df) ==
    /\ Len(df.rows) > 0
    /\ \A i \in 1..Len(df.rows) :
          /\ df.rows[i] \in {BlueRow, RedRow}
          /\ Cardinality({j \in 1..Len(df.rows) :
                              df.rows[j]["gameid"] = df.rows[i]["gameid"]}) = 2
          /\ \E j \in 1..Len(df.rows) :
                /\ df.rows[j]["gameid"] = df.rows[i]["gameid"]
                /\ df.rows[j]["side"] # df.rows[i]["side"]

PairedWithOtherRow(df) ==
    /\ {"opponentteam", "opponent_egpm"} \subseteq df.columns
    /\ \A i \in 1..Len(df.rows) :
          \E j \in 1..Len(df.rows) :
              /\ j # i
              /\ df.rows[j]["gameid"] = df.rows[i]["gameid"]
              /\ df.rows[i]["opponentteam"] = df.rows[j]["teamname"]
              /\ df.rows[i]["opponent_egpm"] = df.rows[j]["earned gpm"]

\* C3: the team view of a table of two-row games (one Blue row, one Red row)
\* completes, and every row carries the team name and the earned gpm of the
\* other row of its game.
C3_TeamViewPaired ==
    (split_on = "team" /\ pc \in {"done", "failed"} /\ TwoRowGames(called_with)) =>
        (pc = "done" /\ PairedWithOtherRow(oe_data))

\* C7: with a split_on other than "team" and "player" clean_data ends in an
\* invalid-argument error and self.oe_data is the table it was called with.
C7_InvalidSplitLeavesTable ==
    (split_on \notin {"team", "player"} /\ pc \in {"done", "failed"}) =>
        (pc = "failed" /\ err = "ValueError" /\ oe_data = called_with)

Ran(step) == \E k \in 1..Len(stages) : stages[k] = step

RanBefore(a, b) ==
    \A j \in 1..Len(stages) : stages[j] = b => \E i \in 1..(j - 1) : stages[i] = a

Enrichment ==
    {"dk_enrich(team)", "dk_enrich(player)", "player_elo", "team_elo",
     "aggregate_player_elos", "trueskill_model", "egpm_model(team)",
     "egpm_model(player)", "ewm_model(player)", "ewm_model(team)",
     "enrich_ema_statistics(team)", "enrich_ema_statistics(player)"}

\* C11: in every run of enrich_dataset dk_enrich of a table precedes its
\* enrich_ema_statistics, the rating stages (player_elo, team_elo,
\* aggregate_player_elos, trueskill_model) precede egpm_model, and no file is
\* written before every enrichment stage of both tables has run.
C11_StagesInDependencyOrder ==
    /\ RanBefore("dk_enrich(team)", "enrich_ema_statistics(team)")
    /\ RanBefore("dk_enrich(player)", "enrich_ema_statistics(player)")
    /\ \A rating \in {"player_elo", "team_elo", "aggregate_player_elos", "trueskill_model"} :
          \A gold \in {"egpm_model(team)", "egpm_model(player)"} : RanBefore(rating, gold)
    /\ files # <<>> => \A step \in Enrichment : Ran(step)
    /\ \A k \in 1..Len(stages) : stages[k] \in Enrichment

\* a run that reached its end: twelve stages, then the four files
C11_Witness ==
    /\ fpc = "flattened"
    /\ Len(stages) = 12
    /\ files = <<"team_data.csv", "player_data.csv", "flattened_teams.csv",
                 "flattened_players.csv">>
    /\ Len(player_data.rows) = 1

\* the rows of the column that carry the value of row i
RowsLike(col, i) == {j \in 1..Len(col) : col[j] = col[i]}

\* every game of the column has at most ten rows
PassedFilter(col) == \A i \in 1..Len(col) : Cardinality(RowsLike(col, i)) <= 10

ShortGame(col) == \E i \in 1..Len(col) : Cardinality(RowsLike(col, i)) < 10

\* the rows of each game follow one another
GamesContiguous(col) ==
    \A i \in 1..Len(col) : \A j \in RowsLike(col, i) :
        \A k \in i..j : col[k] = col[i]

PairedAcrossGames(col, res) ==
    /\ res.raised = "none"
    /\ \E i \in 1..Len(col) : res.opponent[i] # col[i]

RaisesIffNotWholeWindows ==
    /\ (opc # "ready" /\ entity \in {"player", "team"}) =>
          (opponent.raised = "IndexError" <=> Len(column) % (2 * PairGap(entity)) # 0)
    /\ (opc = "called_twice" /\ entity \in {"player", "team"}) =>
          (opponent2.raised = "IndexError"
              <=> Len(opponent.opponent) % (2 * PairGap(entity)) # 0)
    /\ opponent.raised \in {"none", "IndexError", "ValueError"}
    /\ opponent.raised = "ValueError" <=> (opc # "ready" /\ entity \notin {"player", "team"})

\* C12 as stated: get_opponent raises if and only if the length n is not a
\* multiple of 2g; and on the gameid column of every player table that passed
\* the consistency filter, has a multiple of 10 rows and holds a game of fewer
\* than 10 rows, it returns with some row paired with a row of another gameid.
C12_AnyShortGamePairedAcross ==
    /\ RaisesIffNotWholeWindows
    /\ (/\ opc # "ready"
        /\ entity = "player"
        /\ Len(column) % 10 = 0
        /\ PassedFilter(column)
        /\ ShortGame(column)) => PairedAcrossGames(column, opponent)

\* C12 as amended: get_opponent raises if and only if the length n is not a
\* multiple of 2g; and on the gameid column of a player table that passed the
\* consistency filter, has a multiple of 10 rows, holds a game of fewer than
\* 10 rows and keeps the rows of each game together, it returns with some row
\* paired with a row of another gameid.
C12_ContiguousShortGamePairedAcross ==
    /\ RaisesIffNotWholeWindows
    /\ (/\ opc # "ready"
        /\ entity = "player"
        /\ Len(column) % 10 = 0
        /\ PassedFilter(column)
        /\ ShortGame(column)
        /\ GamesContiguous(column)) => PairedAcrossGames(column, opponent)

\* ten rows, four of one game then six of the other: the call returns and
\* the first row is paired with a row of the other game
C12_Witness ==
    /\ opc = "called"
    /\ entity = "player"
    /\ Len(column) = 10
    /\ GamesContiguous(column)
    /\ Cardinality(RowsLike(column, 1)) = 4
    /\ Cardinality(RowsLike(column, 10)) = 6
    /\ opponent.raised = "none"
    /\ opponent.opponent[1] = column[6]
    /\ column[6] # column[1]

====
